---- MODULE Spec2Model ----
(***************************************************************************)
(* The event loop of the Gemini chat TUI (src/src/app.rs, App::run) and    *)
(* the AppState it owns (src/src/ui.rs).                                   *)
(*                                                                         *)
(* A Rust String is modelled as the sequence of its characters; every      *)
(* character is a one-element string and Utf8Len gives the number of bytes *)
(* it occupies, because AppState indexes the input buffer by BYTE offset   *)
(* (String::insert, String::remove, String::len).  "U+00E9" stands for the *)
(* two-byte character e-acute, "U+274C" for the three-byte cross mark that *)
(* opens the error text, "U+4E16" for a three-byte CJK character that is   *)
(* two columns wide.                                                       *)
(*                                                                         *)
(* ChatMessage.timestamp (SystemTime::now()) is read by the renderer only  *)
(* and is left out of the message record.                                  *)
(***************************************************************************)
EXTENDS Integers, Sequences, FiniteSets, TLC

VARIABLES
    messages,         \* AppState.messages: Seq of [content, is_user]
    input,            \* AppState.input: the characters of the String
    input_cursor,     \* AppState.input_cursor: usize, a byte offset
    scroll_offset,    \* AppState.scroll_offset
    is_loading,       \* AppState.is_loading
    status_message,   \* AppState.status_message
    animation_frame,  \* AppState.animation_frame
    tasks,            \* spawned send tasks that have not sent their event yet
    chan,             \* the unbounded mpsc channel tx -> rx
    pc,               \* position of App::run inside the loop iteration
    key,              \* the key event read in the current iteration
    panicked,         \* the main task panicked (String index assertion)
    cancelled,        \* history: ids of the sends Escape was pressed on
    last_applied,     \* history: id of the send whose event was drained last
    hist,             \* history: the last buffer operations and their pre-states
    wrapped,          \* history: animation_frame has gone from 99 to 0
    wt_text,          \* wrap_text: argument text
    wt_width,         \* wrap_text: argument width
    wt_lines,         \* wrap_text: returned Vec<String>
    md_text,          \* parse_markdown_spans: argument text
    md_spans,         \* parse_markdown_spans: returned Vec<Span>
    terminal,         \* the terminal's modes: raw mode, alternate screen, mouse
    message,          \* render_chat_area: the Message whose bubble is rendered
    area_width,       \* render_chat_area: area.width
    item_lines        \* render_chat_area: the Lines of the bubble's ListItem

vars == <<messages, input, input_cursor, scroll_offset, is_loading,
          status_message, animation_frame, tasks, chan, pc, key, panicked,
          cancelled, last_applied, hist, wrapped, wt_text, wt_width, wt_lines,
          md_text, md_spans, terminal, message, area_width, item_lines>>

\* what the event loop never writes: the histories of the buffer and
\* animation specifications, the arguments and results of the renderer's
\* functions, and the terminal's modes, which App::run sets before the loop
\* and resets after it
aux == <<hist, wrapped, wt_text, wt_width, wt_lines, md_text, md_spans,
         terminal, message, area_width, item_lines>>

----------------------------------------------------------------------------
(* Bounds of the model                                                     *)

\* characters held by the session of the event loop specification: the
\* input buffer plus the User messages sent from it
MaxChars == 2
\* animation ticks taken in the event loop specification
MaxTicks == 1
\* characters held by the buffer in the buffer specification
MaxInput == 3
\* characters of the text handed to wrap_text, and the largest width
MaxText == 8
MaxWidth == 11
\* characters of the line handed to parse_markdown_spans
MaxLine == 7
\* characters held by the session of the fair event loop specification
MaxLiveChars == 1
\* characters of a rendered message, widest chat area
MaxContent == 6
MaxArea == 24

\* the characters a key press can carry: ASCII letter, whitespace, 2-byte
Chars == {"a", " ", "U+00E9"}
\* reply texts the service can return, error texts the transport can raise
Replies == {<<"h", "i">>}
Errors == {<<"x">>}

----------------------------------------------------------------------------
(* Strings                                                                 *)

Utf8Len(c) ==
    IF c = "U+00E9" THEN 2 ELSE IF c \in {"U+274C", "U+4E16"} THEN 3 ELSE 1

RECURSIVE ByteLen(_)
ByteLen(s) == IF s = <<>> THEN 0 ELSE Utf8Len(Head(s)) + ByteLen(Tail(s))

\* str::is_char_boundary: offset i is the start of a character or the end
IsCharBoundary(s, i) == \E k \in 0..Len(s) : ByteLen(SubSeq(s, 1, k)) = i

\* number of characters that lie before the char boundary i
CharIndex(s, i) == CHOOSE k \in 0..Len(s) : ByteLen(SubSeq(s, 1, k)) = i

IsWhitespace(c) == c = " "

\* str::trim().is_empty()
IsBlank(s) == \A i \in 1..Len(s) : IsWhitespace(s[i])

\* usize::saturating_sub
SaturatingSub(a, b) == IF a >= b THEN a - b ELSE 0

StatusReady == "Ready to chat with Gemini!"
StatusSending == "Sending message to Gemini..."
StatusCancelled == "Message cancelled"
StatusSuccess == "Response received!"
StatusFailure == "Error occurred"

\* the text put in front of an error: cross mark, space, "Error: "
ErrorPrefix == <<"U+274C", " ", "E", "r", "r", "o", "r", ":", " ">>

----------------------------------------------------------------------------
(* AppState operations (src/src/ui.rs)                                     *)

\* slip: the new message is put in front of the log
add_message_Prepend(content, is_user) ==
    /\ messages' = <<[content |-> content, is_user |-> is_user]>> \o messages
    /\ scroll_offset' = SaturatingSub(Len(messages'), 1)

\* slip: scrolls to the length instead of the last index
add_message_ScrollToLen(content, is_user) ==
    /\ messages' = Append(messages, [content |-> content, is_user |-> is_user])
    /\ scroll_offset' = Len(messages')

add_message(content, is_user) ==
    /\ messages' = Append(messages, [content |-> content, is_user |-> is_user])
    /\ scroll_offset' = SaturatingSub(Len(messages'), 1)

\* String::insert asserts is_char_boundary(idx) before it changes anything
insert_char(c) ==
    IF IsCharBoundary(input, input_cursor)
    THEN LET k == CharIndex(input, input_cursor) IN
         /\ input' = SubSeq(input, 1, k) \o <<c>> \o SubSeq(input, k + 1, Len(input))
         /\ input_cursor' = input_cursor + 1
         /\ panicked' = FALSE
    ELSE /\ panicked' = TRUE
         /\ UNCHANGED <<input, input_cursor>>

\* String::remove(idx) slices self[idx..], which panics off a boundary, and
\* panics when there is no character at idx
delete_char ==
    IF input_cursor > 0
    THEN IF /\ IsCharBoundary(input, input_cursor - 1)
            /\ input_cursor - 1 < ByteLen(input)
         THEN LET k == CharIndex(input, input_cursor - 1) IN
              /\ input' = SubSeq(input, 1, k) \o SubSeq(input, k + 2, Len(input))
              /\ input_cursor' = input_cursor - 1
              /\ panicked' = FALSE
         ELSE /\ panicked' = TRUE
              /\ UNCHANGED <<input, input_cursor>>
    ELSE UNCHANGED <<input, input_cursor, panicked>>

move_cursor_left ==
    /\ input_cursor' = IF input_cursor > 0 THEN input_cursor - 1 ELSE input_cursor
    /\ UNCHANGED <<input, panicked>>

\* String::len is the length in bytes
move_cursor_right ==
    /\ input_cursor' = IF input_cursor < ByteLen(input)
                       THEN input_cursor + 1 ELSE input_cursor
    /\ UNCHANGED <<input, panicked>>

\* slip: the buffer is emptied and the cursor is left where it was
clear_input_KeepCursor ==
    /\ input' = <<>>
    /\ input_cursor' = input_cursor

clear_input ==
    /\ input' = <<>>
    /\ input_cursor' = 0

\* slip: the period is off by one
increment_animation_Period101 ==
    animation_frame' = (animation_frame + 1) % 101

increment_animation ==
    animation_frame' = (animation_frame + 1) % 100

----------------------------------------------------------------------------
(* App::run (src/src/app.rs)                                               *)

Key(code, ch) == [code |-> code, ch |-> ch]
NoKey == Key("None", "")
Keys == {Key(code, "") : code \in {"None", "Enter", "Esc", "Backspace",
                                      "Left", "Right", "CtrlC"}}
        \cup {Key("Char", c) : c \in Chars}

\* sends whose result has not been drained and applied by the loop
Outstanding == Cardinality(tasks) + Len(chan)

RECURSIVE UserChars(_)
UserChars(ms) ==
    IF ms = <<>> THEN 0
    ELSE (IF Head(ms).is_user THEN Len(Head(ms).content) ELSE 0) + UserChars(Tail(ms))

\* characters typed and kept so far
HeldChars == Len(input) + UserChars(messages)

\* App::new: AppState::default(), nothing spawned
AppInit ==
    /\ messages = <<>>
    /\ input = <<>>
    /\ input_cursor = 0
    /\ scroll_offset = 0
    /\ is_loading = FALSE
    /\ status_message = StatusReady
    /\ animation_frame = 0
    /\ tasks = {}
    /\ chan = <<>>
    /\ key = NoKey
    /\ panicked = FALSE
    /\ cancelled = {}
    /\ last_applied = 0

\* no message is being rendered
NoMessage == [content |-> <<>>, is_user |-> FALSE, timestamp |-> 0]
RenderIdle == message = NoMessage /\ area_width = 0 /\ item_lines = <<>>

\* the terminal as App::run finds it, and as its setup leaves it
TermOff ==
    [raw_mode |-> FALSE, alternate_screen |-> FALSE, mouse_capture |-> FALSE]
TermSetUp ==
    [raw_mode |-> TRUE, alternate_screen |-> TRUE, mouse_capture |-> TRUE]

AuxInit ==
    /\ hist = <<>>
    /\ wrapped = FALSE
    /\ wt_text = <<>>
    /\ wt_width = 0
    /\ wt_lines = <<>>
    /\ md_text = <<>>
    /\ md_spans = <<>>
    /\ terminal = TermSetUp
    /\ RenderIdle

\* the loop is entered at its first poll
LoopInit == AppInit /\ pc = "poll"

Init == LoopInit /\ AuxInit

\* the loop has not been left: no break, no panic, no error returned
Running == ~panicked /\ pc \in {"poll", "key", "drain", "tick"}

\* crossterm::event::poll(timeout) and event::read(): the next key press, or
\* None when the timeout passes or the event is not a key press.  key keeps
\* the event until the next poll.  MaxChars caps the characters typed.
Poll ==
    /\ Running /\ pc = "poll"
    /\ \E k \in Keys :
          /\ k.code = "Char" => HeldChars < MaxChars
          /\ key' = k
    /\ pc' = "key"
    /\ UNCHANGED <<messages, input, input_cursor, scroll_offset, is_loading,
                   status_message, animation_frame, tasks, chan, panicked,
                   cancelled, last_applied>>
    /\ UNCHANGED aux

\* slip: the Enter arm does not look at is_loading
EnterAccepted_IgnoreLoading == ~IsBlank(input)

\* the guard of the Enter arm
EnterAccepted == ~IsBlank(input) /\ ~is_loading

\* slip: the Enter arm sends and leaves the loading flag as it was
KeyEnter_LoadingNotSet ==
    /\ Running /\ pc = "key" /\ key.code = "Enter"
    /\ IF EnterAccepted
       THEN /\ add_message(input, TRUE)
            /\ clear_input
            /\ status_message' = StatusSending
            /\ tasks' = tasks \cup {[id |-> Len(messages'), message |-> input]}
       ELSE UNCHANGED <<messages, scroll_offset, input, input_cursor,
                        status_message, tasks>>
    /\ pc' = "drain"
    /\ UNCHANGED <<is_loading, animation_frame, chan, key, panicked, cancelled,
                   last_applied>>
    /\ UNCHANGED aux

\* slip: the Enter arm sets the loading flag and spawns no task
KeyEnter_NoSpawn ==
    /\ Running /\ pc = "key" /\ key.code = "Enter"
    /\ IF EnterAccepted
       THEN /\ add_message(input, TRUE)
            /\ clear_input
            /\ is_loading' = TRUE
            /\ status_message' = StatusSending
       ELSE UNCHANGED <<messages, scroll_offset, input, input_cursor,
                        is_loading, status_message>>
    /\ pc' = "drain"
    /\ UNCHANGED <<animation_frame, tasks, chan, key, panicked, cancelled,
                   last_applied>>
    /\ UNCHANGED aux

\* The task record carries the text it sends; id is the index of its User
\* message in the log and only names the send in the history variables.
KeyEnter ==
    /\ Running /\ pc = "key" /\ key.code = "Enter"
    /\ IF EnterAccepted
       THEN /\ add_message(input, TRUE)
            /\ clear_input
            /\ is_loading' = TRUE
            /\ status_message' = StatusSending
            /\ tasks' = tasks \cup {[id |-> Len(messages'), message |-> input]}
       ELSE UNCHANGED <<messages, scroll_offset, input, input_cursor,
                        is_loading, status_message, tasks>>
    /\ pc' = "drain"
    /\ UNCHANGED <<animation_frame, chan, key, panicked, cancelled, last_applied>>
    /\ UNCHANGED aux

\* slip: typing a character also resets the status line
KeyChar_ResetsStatus ==
    /\ Running /\ pc = "key" /\ key.code = "Char"
    /\ insert_char(key.ch)
    /\ status_message' = StatusReady
    /\ pc' = "drain"
    /\ UNCHANGED <<messages, scroll_offset, is_loading,
                   animation_frame, tasks, chan, key, cancelled, last_applied>>
    /\ UNCHANGED aux

KeyChar ==
    /\ Running /\ pc = "key" /\ key.code = "Char"
    /\ insert_char(key.ch)
    /\ pc' = "drain"
    /\ UNCHANGED <<messages, scroll_offset, is_loading, status_message,
                   animation_frame, tasks, chan, key, cancelled, last_applied>>
    /\ UNCHANGED aux

KeyBackspace ==
    /\ Running /\ pc = "key" /\ key.code = "Backspace"
    /\ delete_char
    /\ pc' = "drain"
    /\ UNCHANGED <<messages, scroll_offset, is_loading, status_message,
                   animation_frame, tasks, chan, key, cancelled, last_applied>>
    /\ UNCHANGED aux

KeyLeft ==
    /\ Running /\ pc = "key" /\ key.code = "Left"
    /\ move_cursor_left
    /\ pc' = "drain"
    /\ UNCHANGED <<messages, scroll_offset, is_loading, status_message,
                   animation_frame, tasks, chan, key, cancelled, last_applied>>
    /\ UNCHANGED aux

KeyRight ==
    /\ Running /\ pc = "key" /\ key.code = "Right"
    /\ move_cursor_right
    /\ pc' = "drain"
    /\ UNCHANGED <<messages, scroll_offset, is_loading, status_message,
                   animation_frame, tasks, chan, key, cancelled, last_applied>>
    /\ UNCHANGED aux

\* slip: Escape also aborts the task of the send it is pressed on
KeyEsc_AbortTask ==
    /\ Running /\ pc = "key" /\ key.code = "Esc"
    /\ IF is_loading
       THEN /\ is_loading' = FALSE
            /\ status_message' = StatusCancelled
            /\ cancelled' = cancelled \cup {Len(messages)}
            /\ tasks' = {t \in tasks : t.id # Len(messages)}
       ELSE UNCHANGED <<is_loading, status_message, cancelled, tasks>>
    /\ pc' = "drain"
    /\ UNCHANGED <<messages, input, input_cursor, scroll_offset,
                   animation_frame, chan, key, panicked, last_applied>>
    /\ UNCHANGED aux

\* the send Escape is pressed on is the one started last
KeyEsc ==
    /\ Running /\ pc = "key" /\ key.code = "Esc"
    /\ IF is_loading
       THEN /\ is_loading' = FALSE
            /\ status_message' = StatusCancelled
            /\ cancelled' = cancelled \cup {Len(messages)}
       ELSE UNCHANGED <<is_loading, status_message, cancelled>>
    /\ pc' = "drain"
    /\ UNCHANGED <<messages, input, input_cursor, scroll_offset,
                   animation_frame, tasks, chan, key, panicked, last_applied>>
    /\ UNCHANGED aux

\* Ctrl+C breaks out of the loop
KeyCtrlC ==
    /\ Running /\ pc = "key" /\ key.code = "CtrlC"
    /\ pc' = "exited"
    /\ UNCHANGED <<messages, input, input_cursor, scroll_offset, is_loading,
                   status_message, animation_frame, tasks, chan, key, panicked,
                   cancelled, last_applied>>
    /\ UNCHANGED aux

\* slip: an iteration without a key goes straight to the tick check
KeyNone_SkipsDrain ==
    /\ Running /\ pc = "key" /\ key.code = "None"
    /\ pc' = "tick"
    /\ UNCHANGED <<messages, input, input_cursor, scroll_offset, is_loading,
                   status_message, animation_frame, tasks, chan, key, panicked,
                   cancelled, last_applied>>
    /\ UNCHANGED aux

\* no key press, or a key the match ignores
KeyNone ==
    /\ Running /\ pc = "key" /\ key.code = "None"
    /\ pc' = "drain"
    /\ UNCHANGED <<messages, input, input_cursor, scroll_offset, is_loading,
                   status_message, animation_frame, tasks, chan, key, panicked,
                   cancelled, last_applied>>
    /\ UNCHANGED aux

\* the spawned task: send_message returned Ok(response)
TaskOk ==
    /\ Running
    /\ \E t \in tasks, r \in Replies :
          /\ tasks' = tasks \ {t}
          /\ chan' = Append(chan, [kind |-> "GeminiResponse", text |-> r, id |-> t.id])
    /\ UNCHANGED <<messages, input, input_cursor, scroll_offset, is_loading,
                   status_message, animation_frame, pc, key, panicked,
                   cancelled, last_applied>>
    /\ UNCHANGED aux

\* slip: a failed send ends its task without an event
TaskErr_NoEvent ==
    /\ Running
    /\ \E t \in tasks : tasks' = tasks \ {t}
    /\ UNCHANGED <<messages, input, input_cursor, scroll_offset, is_loading,
                   status_message, animation_frame, chan, pc, key, panicked,
                   cancelled, last_applied>>
    /\ UNCHANGED aux

\* the spawned task: send_message returned Err(e)
TaskErr ==
    /\ Running
    /\ \E t \in tasks, e \in Errors :
          /\ tasks' = tasks \ {t}
          /\ chan' = Append(chan, [kind |-> "GeminiError", text |-> e, id |-> t.id])
    /\ UNCHANGED <<messages, input, input_cursor, scroll_offset, is_loading,
                   status_message, animation_frame, pc, key, panicked,
                   cancelled, last_applied>>
    /\ UNCHANGED aux

\* slip: the reply is shown and the loading flag is left set
DrainResponse_KeepLoading ==
    /\ Running /\ pc = "drain"
    /\ chan # <<>> /\ Head(chan).kind = "GeminiResponse"
    /\ add_message(Head(chan).text, FALSE)
    /\ status_message' = StatusSuccess
    /\ last_applied' = Head(chan).id
    /\ chan' = Tail(chan)
    /\ UNCHANGED <<input, input_cursor, is_loading, animation_frame, tasks, pc,
                   key, panicked, cancelled>>
    /\ UNCHANGED aux

\* slip: the reply of a send that Escape was pressed on is dropped
DrainResponse_DropCancelled ==
    /\ Running /\ pc = "drain"
    /\ chan # <<>> /\ Head(chan).kind = "GeminiResponse"
    /\ IF Head(chan).id \in cancelled
       THEN UNCHANGED <<messages, scroll_offset, is_loading, status_message>>
       ELSE /\ add_message(Head(chan).text, FALSE)
            /\ is_loading' = FALSE
            /\ status_message' = StatusSuccess
    /\ last_applied' = Head(chan).id
    /\ chan' = Tail(chan)
    /\ UNCHANGED <<input, input_cursor, animation_frame, tasks, pc, key,
                   panicked, cancelled>>
    /\ UNCHANGED aux

\* rx.try_recv() returned a GeminiResponse
DrainResponse ==
    /\ Running /\ pc = "drain"
    /\ chan # <<>> /\ Head(chan).kind = "GeminiResponse"
    /\ add_message(Head(chan).text, FALSE)
    /\ is_loading' = FALSE
    /\ status_message' = StatusSuccess
    /\ last_applied' = Head(chan).id
    /\ chan' = Tail(chan)
    /\ UNCHANGED <<input, input_cursor, animation_frame, tasks, pc, key,
                   panicked, cancelled>>
    /\ UNCHANGED aux

\* slip: the error is shown and then ends the loop
DrainError_Exits ==
    /\ Running /\ pc = "drain"
    /\ chan # <<>> /\ Head(chan).kind = "GeminiError"
    /\ add_message(ErrorPrefix \o Head(chan).text, FALSE)
    /\ is_loading' = FALSE
    /\ status_message' = StatusFailure
    /\ last_applied' = Head(chan).id
    /\ chan' = Tail(chan)
    /\ pc' = "exited"
    /\ UNCHANGED <<input, input_cursor, animation_frame, tasks, key,
                   panicked, cancelled>>
    /\ UNCHANGED aux

\* rx.try_recv() returned a GeminiError
DrainError ==
    /\ Running /\ pc = "drain"
    /\ chan # <<>> /\ Head(chan).kind = "GeminiError"
    /\ add_message(ErrorPrefix \o Head(chan).text, FALSE)
    /\ is_loading' = FALSE
    /\ status_message' = StatusFailure
    /\ last_applied' = Head(chan).id
    /\ chan' = Tail(chan)
    /\ UNCHANGED <<input, input_cursor, animation_frame, tasks, pc, key,
                   panicked, cancelled>>
    /\ UNCHANGED aux

\* rx.try_recv() returned Err(Empty): the while loop ends.  No sender ever
\* puts AppEvent::Tick on the channel, so that arm of the match has no step.
DrainEmpty ==
    /\ Running /\ pc = "drain"
    /\ chan = <<>>
    /\ pc' = "tick"
    /\ UNCHANGED <<messages, input, input_cursor, scroll_offset, is_loading,
                   status_message, animation_frame, tasks, chan, key, panicked,
                   cancelled, last_applied>>
    /\ UNCHANGED aux

\* last_tick.elapsed() >= tick_rate.  Whether the 100 ms have passed is the
\* clock's choice; MaxTicks caps how many ticks this specification follows.
TickElapsed ==
    /\ Running /\ pc = "tick"
    /\ animation_frame < MaxTicks
    /\ increment_animation
    /\ pc' = "poll"
    /\ UNCHANGED <<messages, input, input_cursor, scroll_offset, is_loading,
                   status_message, tasks, chan, key, panicked, cancelled,
                   last_applied>>
    /\ UNCHANGED aux

TickNotElapsed ==
    /\ Running /\ pc = "tick"
    /\ pc' = "poll"
    /\ UNCHANGED <<messages, input, input_cursor, scroll_offset, is_loading,
                   status_message, animation_frame, tasks, chan, key, panicked,
                   cancelled, last_applied>>
    /\ UNCHANGED aux

Next ==
    \/ Poll
    \/ KeyEnter
    \/ KeyChar
    \/ KeyBackspace
    \/ KeyLeft
    \/ KeyRight
    \/ KeyEsc
    \/ KeyCtrlC
    \/ KeyNone
    \/ TaskOk
    \/ TaskErr
    \/ DrainResponse
    \/ DrainError
    \/ DrainEmpty
    \/ TickElapsed
    \/ TickNotElapsed

Spec == Init /\ [][Next]_vars

----------------------------------------------------------------------------
(* The event loop under fair scheduling: the loop takes its next step      *)
(* whenever it has one, since poll returns after its timeout at the latest, *)
(* and the tokio runtime runs every spawned task until it has sent its     *)
(* event.                                                                  *)

\* the poll of the loop, MaxLiveChars capping the characters typed
PollLive ==
    /\ Running /\ pc = "poll"
    /\ \E k \in Keys :
          /\ k.code = "Char" => HeldChars < MaxLiveChars
          /\ key' = k
    /\ pc' = "key"
    /\ UNCHANGED <<messages, input, input_cursor, scroll_offset, is_loading,
                   status_message, animation_frame, tasks, chan, panicked,
                   cancelled, last_applied>>
    /\ UNCHANGED aux

\* a step of the loop itself
LoopStep ==
    \/ PollLive
    \/ KeyEnter
    \/ KeyChar
    \/ KeyBackspace
    \/ KeyLeft
    \/ KeyRight
    \/ KeyEsc
    \/ KeyCtrlC
    \/ KeyNone
    \/ DrainResponse
    \/ DrainError
    \/ DrainEmpty
    \/ TickElapsed
    \/ TickNotElapsed

\* a spawned task sends its event
TaskStep == TaskOk \/ TaskErr

NextLive == LoopStep \/ TaskStep

SpecLive ==
    /\ Init /\ [][NextLive]_vars
    /\ WF_vars(LoopStep)
    /\ WF_vars(TaskStep)

----------------------------------------------------------------------------
(* The animation counter: the loop left alone, with no key pressed and no  *)
(* send, ticking for as long as it runs.                                   *)

\* crossterm::event::poll(timeout) returns false: the timeout passed
PollTimeout ==
    /\ Running /\ pc = "poll"
    /\ key' = NoKey
    /\ pc' = "key"
    /\ UNCHANGED <<messages, input, input_cursor, scroll_offset, is_loading,
                   status_message, animation_frame, tasks, chan, panicked,
                   cancelled, last_applied>>
    /\ UNCHANGED aux

\* last_tick.elapsed() >= tick_rate, any number of times
TickWraps ==
    /\ Running /\ pc = "tick"
    /\ increment_animation
    /\ wrapped' = (wrapped \/ animation_frame = 99)
    /\ pc' = "poll"
    /\ UNCHANGED <<messages, input, input_cursor, scroll_offset, is_loading,
                   status_message, tasks, chan, key, panicked, cancelled,
                   last_applied>>
    /\ UNCHANGED <<hist, wt_text, wt_width, wt_lines, md_text, md_spans,
                   terminal, message, area_width, item_lines>>

NextAnim ==
    \/ PollTimeout
    \/ KeyNone
    \/ DrainEmpty
    \/ TickWraps
    \/ TickNotElapsed

SpecAnim == Init /\ [][NextAnim]_vars

----------------------------------------------------------------------------
(* The input buffer alone: the five AppState buffer operations called in   *)
(* any order on the default AppState.  hist keeps the last two operations  *)
(* with the buffer and cursor each one found.                              *)

Remember(op) ==
    LET h == <<[op |-> op, input |-> input, cursor |-> input_cursor]>> \o hist
    IN  hist' = IF Len(h) > 2 THEN SubSeq(h, 1, 2) ELSE h

\* everything but the buffer, its cursor, the panic flag and hist
notBuffer == <<messages, scroll_offset, is_loading, status_message,
               animation_frame, tasks, chan, pc, key, cancelled, last_applied,
               wrapped, wt_text, wt_width, wt_lines, md_text, md_spans,
               terminal, message, area_width, item_lines>>

BufInsert ==
    /\ ~panicked
    /\ Len(input) < MaxInput
    /\ \E c \in Chars : insert_char(c)
    /\ Remember("insert")
    /\ UNCHANGED notBuffer

BufDelete ==
    /\ ~panicked
    /\ delete_char
    /\ Remember("delete")
    /\ UNCHANGED notBuffer

BufLeft ==
    /\ ~panicked
    /\ move_cursor_left
    /\ Remember("left")
    /\ UNCHANGED notBuffer

BufRight ==
    /\ ~panicked
    /\ move_cursor_right
    /\ Remember("right")
    /\ UNCHANGED notBuffer

BufClear ==
    /\ ~panicked
    /\ clear_input
    /\ Remember("clear")
    /\ UNCHANGED panicked
    /\ UNCHANGED notBuffer

NextBuf ==
    \/ BufInsert
    \/ BufDelete
    \/ BufLeft
    \/ BufRight
    \/ BufClear

SpecBuf == Init /\ [][NextBuf]_vars

----------------------------------------------------------------------------
(* wrap_text (src/src/ui.rs)                                               *)

\* unicode_width: columns a character takes on the terminal
CharWidth(c) == IF c \in {"U+4E16", "U+1F916"} THEN 2 ELSE 1

\* UnicodeWidthStr::width
RECURSIVE StrWidth(_)
StrWidth(s) == IF s = <<>> THEN 0 ELSE CharWidth(Head(s)) + StrWidth(Tail(s))

min_width == 10

Max(a, b) == IF a >= b THEN a ELSE b

\* str::split_whitespace, from character i on, cur being the word so far
RECURSIVE SplitFrom(_, _, _)
SplitFrom(text, i, cur) ==
    IF i > Len(text)
    THEN IF cur = <<>> THEN <<>> ELSE <<cur>>
    ELSE IF IsWhitespace(text[i])
         THEN (IF cur = <<>> THEN <<>> ELSE <<cur>>) \o SplitFrom(text, i + 1, <<>>)
         ELSE SplitFrom(text, i + 1, Append(cur, text[i]))

split_whitespace(text) == SplitFrom(text, 1, <<>>)

\* the for loop over remaining.char_indices(): the byte offset chunk_end
\* when the loop ends or breaks, k being the next character
RECURSIVE ChunkScan(_, _, _, _, _)
ChunkScan(remaining, k, chunk_width, chunk_end, actual_width) ==
    IF k > Len(remaining)
    THEN chunk_end
    ELSE LET char_width == CharWidth(remaining[k])
             i == ByteLen(SubSeq(remaining, 1, k - 1))
         IN  IF chunk_width + char_width > actual_width
             THEN chunk_end
             ELSE ChunkScan(remaining, k + 1, chunk_width + char_width,
                            i + Utf8Len(remaining[k]), actual_width)

\* chunk_end after the "take it anyway" correction
ChunkEnd(remaining, actual_width) ==
    LET e == ChunkScan(remaining, 1, 0, 0, actual_width)
    IN  IF e = 0 THEN Utf8Len(remaining[1]) ELSE e

\* the while loop that breaks a long word: the chunks it pushes
RECURSIVE BreakWord(_, _)
BreakWord(remaining, actual_width) ==
    IF remaining = <<>>
    THEN <<>>
    ELSE LET k == CharIndex(remaining, ChunkEnd(remaining, actual_width))
         IN  <<SubSeq(remaining, 1, k)>>
             \o BreakWord(SubSeq(remaining, k + 1, Len(remaining)), actual_width)

\* slip: the joining space is not counted when a word is added to a line
WrapWord_SpaceNotCounted(st, word, actual_width) ==
    IF StrWidth(word) > actual_width
    THEN [lines |-> (IF st.current_line # <<>>
                     THEN Append(st.lines, st.current_line) ELSE st.lines)
                    \o BreakWord(word, actual_width),
          current_line |-> <<>>]
    ELSE IF st.current_line = <<>>
         THEN [lines |-> st.lines, current_line |-> word]
         ELSE IF StrWidth(st.current_line) + StrWidth(word) <= actual_width
              THEN [lines |-> st.lines,
                    current_line |-> st.current_line \o <<" ">> \o word]
              ELSE [lines |-> Append(st.lines, st.current_line),
                    current_line |-> word]

\* slip: the word is added to the line without the joining space
WrapWord_NoSpacePushed(st, word, actual_width) ==
    IF StrWidth(word) > actual_width
    THEN [lines |-> (IF st.current_line # <<>>
                     THEN Append(st.lines, st.current_line) ELSE st.lines)
                    \o BreakWord(word, actual_width),
          current_line |-> <<>>]
    ELSE IF st.current_line = <<>>
         THEN [lines |-> st.lines, current_line |-> word]
         ELSE IF StrWidth(st.current_line) + 1 + StrWidth(word) <= actual_width
              THEN [lines |-> st.lines,
                    current_line |-> st.current_line \o word]
              ELSE [lines |-> Append(st.lines, st.current_line),
                    current_line |-> word]

\* one pass of the for loop over the words; st is (lines, current_line)
WrapWord(st, word, actual_width) ==
    IF StrWidth(word) > actual_width
    THEN [lines |-> (IF st.current_line # <<>>
                     THEN Append(st.lines, st.current_line) ELSE st.lines)
                    \o BreakWord(word, actual_width),
          current_line |-> <<>>]
    ELSE IF st.current_line = <<>>
         THEN [lines |-> st.lines, current_line |-> word]
         ELSE IF StrWidth(st.current_line) + 1 + StrWidth(word) <= actual_width
              THEN [lines |-> st.lines,
                    current_line |-> st.current_line \o <<" ">> \o word]
              ELSE [lines |-> Append(st.lines, st.current_line),
                    current_line |-> word]

RECURSIVE WrapWords(_, _, _)
WrapWords(st, words, actual_width) ==
    IF words = <<>> THEN st
    ELSE WrapWords(WrapWord(st, Head(words), actual_width), Tail(words),
                   actual_width)

\* slip: no line is pushed when there is none
WrapFinish_MayBeEmpty(st) ==
    IF st.current_line # <<>> THEN Append(st.lines, st.current_line)
    ELSE st.lines

\* after the loop: the pending line, and one empty line if there is none
WrapFinish(st) ==
    LET lines == IF st.current_line # <<>>
                 THEN Append(st.lines, st.current_line) ELSE st.lines
    IN  IF lines = <<>> THEN << <<>> >> ELSE lines

wrap_text(text, width) ==
    LET actual_width == Max(width, min_width)
    IN  WrapFinish(WrapWords([lines |-> <<>>, current_line |-> <<>>],
                             split_whitespace(text), actual_width))

\* the characters of a wrapped text: narrow, wide, whitespace
WrapChars == {"a", "U+4E16", " "}
Texts == UNION {[1..n -> WrapChars] : n \in 0..MaxText}
Widths == (min_width - 1)..MaxWidth

\* render_chat_area is about to wrap a message content
InitWrap ==
    /\ AppInit /\ pc = "call"
    /\ hist = <<>> /\ wrapped = FALSE
    /\ wt_text \in Texts
    /\ wt_width \in Widths
    /\ wt_lines = <<>>
    /\ md_text = <<>> /\ md_spans = <<>>
    /\ terminal = TermSetUp /\ RenderIdle

WrapCall ==
    /\ pc = "call"
    /\ wt_lines' = wrap_text(wt_text, wt_width)
    /\ pc' = "return"
    /\ UNCHANGED <<messages, input, input_cursor, scroll_offset, is_loading,
                   status_message, animation_frame, tasks, chan, key, panicked,
                   cancelled, last_applied>>
    /\ UNCHANGED <<hist, wrapped, wt_text, wt_width, md_text, md_spans,
                   terminal, message, area_width, item_lines>>

NextWrap == WrapCall

SpecWrap == InitWrap /\ [][NextWrap]_vars

----------------------------------------------------------------------------
(* parse_markdown_spans (src/src/ui.rs)                                    *)

\* Span::styled(text, White) and Span::styled(text, White + BOLD)
PlainSpan(t) == [content |-> t, bold |-> FALSE]
\* slip: the bold run gets the plain style
BoldSpan_Unstyled(t) == [content |-> t, bold |-> FALSE]
BoldSpan(t) == [content |-> t, bold |-> TRUE]

\* slip: a single '*' is taken for the marker
MarkerAt_SingleStar(text, i) ==
    text[i] = "*"

\* ch == '*' && chars.peek() == Some(&'*'), ch being character i of text
MarkerAt(text, i) ==
    i + 1 <= Len(text) /\ text[i] = "*" /\ text[i + 1] = "*"

\* slip: the second '*' of the closing marker is not consumed
RECURSIVE CollectBold_ClosingHalfLeft(_, _, _)
CollectBold_ClosingHalfLeft(text, j, bold_text) ==
    IF j > Len(text)
    THEN [bold_text |-> bold_text, found_end |-> FALSE, next |-> j]
    ELSE IF MarkerAt(text, j)
         THEN [bold_text |-> bold_text, found_end |-> TRUE, next |-> j + 1]
         ELSE CollectBold_ClosingHalfLeft(text, j + 1, Append(bold_text, text[j]))

\* the inner while loop: collects bold_text from character j on until the
\* next marker; next is the first character it has not consumed
RECURSIVE CollectBold(_, _, _)
CollectBold(text, j, bold_text) ==
    IF j > Len(text)
    THEN [bold_text |-> bold_text, found_end |-> FALSE, next |-> j]
    ELSE IF MarkerAt(text, j)
         THEN [bold_text |-> bold_text, found_end |-> TRUE, next |-> j + 2]
         ELSE CollectBold(text, j + 1, Append(bold_text, text[j]))

\* slip: the opening marker of an unterminated run is dropped
Unterminated_MarkerLost(current_text, bold_text) ==
    current_text \o bold_text

\* no closing marker: "**" and the collected text go to current_text
Unterminated(current_text, bold_text) ==
    current_text \o <<"*", "*">> \o bold_text

\* the outer while loop from character i on
RECURSIVE ParseFrom(_, _, _, _)
ParseFrom(text, i, current_text, spans) ==
    IF i > Len(text)
    THEN IF current_text # <<>> THEN Append(spans, PlainSpan(current_text))
         ELSE spans
    ELSE IF MarkerAt(text, i)
         THEN LET flushed == IF current_text # <<>>
                             THEN Append(spans, PlainSpan(current_text))
                             ELSE spans
                  b == CollectBold(text, i + 2, <<>>)
              IN  IF b.found_end
                  THEN ParseFrom(text, b.next, <<>>,
                                 Append(flushed, BoldSpan(b.bold_text)))
                  ELSE ParseFrom(text, b.next, Unterminated(<<>>, b.bold_text),
                                 flushed)
         ELSE ParseFrom(text, i + 1, Append(current_text, text[i]), spans)

parse_markdown_spans(text) == ParseFrom(text, 1, <<>>, <<>>)

\* the characters of a line: a letter, the marker character, a space
MdChars == {"a", "*", " "}
MdLines == UNION {[1..n -> MdChars] : n \in 0..MaxLine}

\* render_chat_area is about to parse a wrapped line
InitMd ==
    /\ AppInit /\ pc = "call"
    /\ hist = <<>> /\ wrapped = FALSE
    /\ wt_text = <<>> /\ wt_width = 0 /\ wt_lines = <<>>
    /\ md_text \in MdLines
    /\ md_spans = <<>>
    /\ terminal = TermSetUp /\ RenderIdle

ParseCall ==
    /\ pc = "call"
    /\ md_spans' = parse_markdown_spans(md_text)
    /\ pc' = "return"
    /\ UNCHANGED <<messages, input, input_cursor, scroll_offset, is_loading,
                   status_message, animation_frame, tasks, chan, key, panicked,
                   cancelled, last_applied>>
    /\ UNCHANGED <<hist, wrapped, wt_text, wt_width, wt_lines, md_text,
                   terminal, message, area_width, item_lines>>

NextMd == ParseCall

SpecMd == InitMd /\ [][NextMd]_vars

----------------------------------------------------------------------------
----------------------------------------------------------------------------
(* App::run from its first statement to its return (src/src/app.rs): the   *)
(* terminal setup, the loop with the I/O errors its ? operators propagate, *)
(* and the restoration after the loop.                                     *)

\* everything but pc and terminal
notTerminal == <<messages, input, input_cursor, scroll_offset, is_loading,
                 status_message, animation_frame, tasks, chan, key, panicked,
                 cancelled, last_applied, hist, wrapped, wt_text, wt_width,
                 wt_lines, md_text, md_spans, message, area_width, item_lines>>

\* App::run is called on a terminal in its normal mode
InitTerm ==
    /\ AppInit /\ pc = "enable_raw_mode"
    /\ hist = <<>> /\ wrapped = FALSE
    /\ wt_text = <<>> /\ wt_width = 0 /\ wt_lines = <<>>
    /\ md_text = <<>> /\ md_spans = <<>>
    /\ terminal = TermOff /\ RenderIdle

\* enable_raw_mode()?
EnableRawMode ==
    /\ pc = "enable_raw_mode"
    /\ terminal' = [terminal EXCEPT !.raw_mode = TRUE]
    /\ pc' = "enter_screen"
    /\ UNCHANGED notTerminal

EnableRawModeErr ==
    /\ pc = "enable_raw_mode"
    /\ pc' = "failed_setup"
    /\ UNCHANGED terminal
    /\ UNCHANGED notTerminal

\* execute!(stdout, EnterAlternateScreen, EnableMouseCapture)?
EnterScreen ==
    /\ pc = "enter_screen"
    /\ terminal' = [terminal EXCEPT !.alternate_screen = TRUE,
                                    !.mouse_capture = TRUE]
    /\ pc' = "new_terminal"
    /\ UNCHANGED notTerminal

\* the write failed: the first command may or may not have reached the
\* terminal, the second did not
EnterScreenErr ==
    /\ pc = "enter_screen"
    /\ \E entered \in BOOLEAN :
          terminal' = [terminal EXCEPT !.alternate_screen = entered]
    /\ pc' = "failed_setup"
    /\ UNCHANGED notTerminal

\* Terminal::new(backend)?, then the channel and the timer; the loop begins
NewTerminal ==
    /\ pc = "new_terminal"
    /\ pc' = "poll"
    /\ UNCHANGED terminal
    /\ UNCHANGED notTerminal

NewTerminalErr ==
    /\ pc = "new_terminal"
    /\ pc' = "failed_setup"
    /\ UNCHANGED terminal
    /\ UNCHANGED notTerminal

\* terminal.draw(..)? returns Err at the top of an iteration
DrawErr ==
    /\ Running /\ pc = "poll"
    /\ pc' = "failed_draw"
    /\ UNCHANGED terminal
    /\ UNCHANGED notTerminal

\* crossterm::event::poll(timeout)? returns Err
PollErr ==
    /\ Running /\ pc = "poll"
    /\ pc' = "failed_poll"
    /\ UNCHANGED terminal
    /\ UNCHANGED notTerminal

\* event::read()? returns Err
ReadErr ==
    /\ Running /\ pc = "poll"
    /\ pc' = "failed_read"
    /\ UNCHANGED terminal
    /\ UNCHANGED notTerminal

\* after the break: disable_raw_mode()?
DisableRawMode ==
    /\ pc = "exited"
    /\ terminal' = [terminal EXCEPT !.raw_mode = FALSE]
    /\ pc' = "leave_screen"
    /\ UNCHANGED notTerminal

DisableRawModeErr ==
    /\ pc = "exited"
    /\ pc' = "failed_restore"
    /\ UNCHANGED terminal
    /\ UNCHANGED notTerminal

\* execute!(terminal.backend_mut(), LeaveAlternateScreen, DisableMouseCapture)?
LeaveScreen ==
    /\ pc = "leave_screen"
    /\ terminal' = [terminal EXCEPT !.alternate_screen = FALSE,
                                    !.mouse_capture = FALSE]
    /\ pc' = "show_cursor"
    /\ UNCHANGED notTerminal

LeaveScreenErr ==
    /\ pc = "leave_screen"
    /\ \E left \in BOOLEAN :
          terminal' = [terminal EXCEPT !.alternate_screen = ~left]
    /\ pc' = "failed_restore"
    /\ UNCHANGED notTerminal

\* terminal.show_cursor()?; Ok(())
ShowCursor ==
    /\ pc = "show_cursor"
    /\ pc' = "returned"
    /\ UNCHANGED terminal
    /\ UNCHANGED notTerminal

ShowCursorErr ==
    /\ pc = "show_cursor"
    /\ pc' = "failed_restore"
    /\ UNCHANGED terminal
    /\ UNCHANGED notTerminal

NextTerm ==
    \/ EnableRawMode
    \/ EnableRawModeErr
    \/ EnterScreen
    \/ EnterScreenErr
    \/ NewTerminal
    \/ NewTerminalErr
    \/ DrawErr
    \/ PollErr
    \/ ReadErr
    \/ DisableRawMode
    \/ DisableRawModeErr
    \/ LeaveScreen
    \/ LeaveScreenErr
    \/ ShowCursor
    \/ ShowCursorErr
    \/ Next

SpecTerm == InitTerm /\ [][NextTerm]_vars

----------------------------------------------------------------------------
(* render_chat_area: the bubble of one message (src/src/ui.rs)             *)

Min(a, b) == IF a <= b THEN a ELSE b

\* "c".repeat(n)
Repeat(c, n) == [k \in 1..n |-> c]

\* {:02} of a number below 100
TwoDigits(n) ==
    LET digits == <<"0", "1", "2", "3", "4", "5", "6", "7", "8", "9">>
    IN  <<digits[(n \div 10) + 1], digits[(n % 10) + 1]>>

\* format_timestamp of a time secs seconds after the epoch
format_timestamp(secs) ==
    TwoDigits((secs \div 3600) % 24) \o <<":">>
    \o TwoDigits((secs \div 60) % 60) \o <<":">>
    \o TwoDigits(secs % 60)

\* the widest of the wrapped lines, each behind prefix; unwrap_or(10) when
\* there is no line
RECURSIVE MaxLineWidth(_, _)
MaxLineWidth(prefix, wrapped_content) ==
    IF wrapped_content = <<>> THEN 0
    ELSE Max(StrWidth(prefix \o Head(wrapped_content)),
             MaxLineWidth(prefix, Tail(wrapped_content)))

ContentWidth(prefix, wrapped_content, max_width) ==
    Min(IF wrapped_content = <<>> THEN 10
        ELSE MaxLineWidth(prefix, wrapped_content),
        max_width)

\* a Line of the ListItem: padding is the text of the leading raw span that
\* aligns the bubble, text the texts of the spans after it
BubbleLine(padding, text) == [padding |-> padding, text |-> text]

\* format!("╭─ {} {}╮", timestamp_header, "─".repeat(..))
TopBorder(timestamp_header, actual_width) ==
    <<"U+256D", "U+2500", " ">> \o timestamp_header \o <<" ">>
    \o Repeat("U+2500",
              SaturatingSub(actual_width, StrWidth(timestamp_header) + 5))
    \o <<"U+256E">>

\* format!("╰{}╯", "─".repeat(actual_width))
BottomBorder(actual_width) ==
    <<"U+2570">> \o Repeat("U+2500", actual_width) \o <<"U+256F">>

\* the texts of the spans parse_markdown_spans gives, as the terminal shows
\* them one after the other
RECURSIVE SpansText(_)
SpansText(spans) ==
    IF spans = <<>> THEN <<>>
    ELSE Head(spans).content \o SpansText(Tail(spans))

\* "│ ", content_prefix, the parsed line, the padding, " │"
BodyText(content_prefix, line, actual_width) ==
    <<"U+2502", " ">> \o content_prefix
    \o SpansText(parse_markdown_spans(line))
    \o Repeat(" ", SaturatingSub(actual_width,
                                 StrWidth(content_prefix) + StrWidth(line) + 2))
    \o <<" ", "U+2502">>

\* the User branch: right-aligned bubble
UserBubble(msg, width) ==
    LET max_width == SaturatingSub(width, 10)
        wrapped_content == wrap_text(msg.content, max_width)
        content_prefix == <<"Y", "o", "u", ":", " ">>
        content_width == ContentWidth(content_prefix, wrapped_content, max_width)
        bubble_width == content_width + 4
        timestamp_header ==
            <<"Y", "o", "u", " ">> \o format_timestamp(msg.timestamp)
        header_width == StrWidth(timestamp_header) + 4
        actual_width == Min(Max(bubble_width, header_width), max_width + 4)
        left_padding == Repeat(" ", SaturatingSub(width, actual_width + 2))
    IN  <<BubbleLine(left_padding, TopBorder(timestamp_header, actual_width))>>
        \o [k \in 1..Len(wrapped_content) |->
               BubbleLine(left_padding,
                          BodyText(content_prefix, wrapped_content[k],
                                   actual_width))]
        \o <<BubbleLine(left_padding, BottomBorder(actual_width)),
             BubbleLine(<<>>, <<>>)>>

\* the Gemini branch: left-aligned bubble
RemoteBubble(msg, width) ==
    LET max_width == SaturatingSub(width, 8)
        wrapped_content == wrap_text(msg.content, max_width)
        content_width == ContentWidth(<<>>, wrapped_content, max_width)
        timestamp_header ==
            <<"U+1F916", " ", "G", "e", "m", "i", "n", "i", " ">>
            \o format_timestamp(msg.timestamp)
        header_width == StrWidth(timestamp_header) + 4
        actual_width == Min(Max(content_width, header_width), max_width)
    IN  <<BubbleLine(<<>>, TopBorder(timestamp_header, actual_width))>>
        \o [k \in 1..Len(wrapped_content) |->
               BubbleLine(<<>>, BodyText(<<>>, wrapped_content[k], actual_width))]
        \o <<BubbleLine(<<>>, BottomBorder(actual_width)),
             BubbleLine(<<>>, <<>>)>>

\* the characters of a message: a letter, a wide character, a space, the
\* marker character
BubbleChars == {"a", "U+4E16", " ", "*"}
Contents == UNION {[1..n -> BubbleChars] : n \in 0..MaxContent}
\* the chat area's widths, the narrowest terminals the bubbles are drawn on
AreaWidths == (MaxArea - 4)..MaxArea
\* midnight and 12:34:56
Timestamps == {0, 45296}

\* render_chat_area is about to render a message
InitBubble ==
    /\ AppInit /\ pc = "call"
    /\ hist = <<>> /\ wrapped = FALSE
    /\ wt_text = <<>> /\ wt_width = 0 /\ wt_lines = <<>>
    /\ md_text = <<>> /\ md_spans = <<>>
    /\ terminal = TermSetUp
    /\ message \in [content : Contents, is_user : BOOLEAN,
                    timestamp : Timestamps]
    /\ message.is_user => ~IsBlank(message.content)
    /\ area_width \in AreaWidths
    /\ item_lines = <<>>

\* one pass of the loop over app.messages
RenderBubble ==
    /\ pc = "call"
    /\ item_lines' = IF message.is_user
                     THEN UserBubble(message, area_width)
                     ELSE RemoteBubble(message, area_width)
    /\ pc' = "return"
    /\ UNCHANGED <<messages, input, input_cursor, scroll_offset, is_loading,
                   status_message, animation_frame, tasks, chan, key, panicked,
                   cancelled, last_applied>>
    /\ UNCHANGED <<hist, wrapped, wt_text, wt_width, wt_lines, md_text,
                   md_spans, terminal, message, area_width>>

NextBubble == RenderBubble

SpecBubble == InitBubble /\ [][NextBubble]_vars

----------------------------------------------------------------------------
(* Properties of the event loop                                            *)

\* the loop takes the step that handles the key it has read
HandlesKey(code) == pc = "key" /\ key.code = code /\ pc' = "drain"

\* the loop takes the step that drains the event at the head of the channel
DrainsHead(kind) ==
    /\ pc = "drain" /\ chan # <<>> /\ Head(chan).kind = kind
    /\ chan' = Tail(chan)

LastMessage == messages[Len(messages)]

\* the text the loop shows for an event: the reply, or the prefixed error
ShownText(ev) ==
    IF ev.kind = "GeminiResponse" THEN ev.text ELSE ErrorPrefix \o ev.text

\* what an accepted Enter does: one User message holding the buffer, the
\* buffer cleared, the sending status, one new task carrying the buffer
EnterSends ==
    /\ messages' = Append(messages, [content |-> input, is_user |-> TRUE])
    /\ input' = <<>>
    /\ input_cursor' = 0
    /\ status_message' = StatusSending
    /\ tasks \subseteq tasks'
    /\ Cardinality(tasks' \ tasks) = 1
    /\ \A t \in tasks' \ tasks : t.message = input
    /\ is_loading' = TRUE

\* C1: in every reachable state at most one send is outstanding (spawned
\* and not yet drained and applied by the loop).
C1_AtMostOneOutstanding == Outstanding <= 1

\* C2: Enter pressed while is_loading is true appends no message, spawns no
\* task and leaves input, input_cursor, is_loading and status_message alone,
\* whatever the buffer holds.
C2_EnterWhileLoadingRejected ==
    [][(HandlesKey("Enter") /\ is_loading)
        => UNCHANGED <<messages, tasks, chan, input, input_cursor, is_loading,
                       status_message>>]_vars

C2_Witness ==
    /\ pc = "drain" /\ key.code = "Enter"
    /\ is_loading /\ ~IsBlank(input) /\ Outstanding = 1

\* C3 as stated: Enter pressed while is_loading is false with ANY non-empty
\* buffer appends one User message holding the buffer, clears the buffer,
\* sets the sending status, spawns one task and sets is_loading.
C3_EnterSendsAnyNonEmpty ==
    [][(HandlesKey("Enter") /\ ~is_loading /\ input # <<>>) => EnterSends]_vars

\* C3 amended: Enter pressed while is_loading is false with a buffer that
\* holds a non-whitespace character appends one User message holding the
\* whole buffer, clears the buffer, sets the sending status, spawns one task
\* and sets is_loading; a buffer of whitespace only is ignored.
C3_EnterSendsNonBlank ==
    [][(HandlesKey("Enter") /\ ~is_loading)
        => IF ~IsBlank(input) THEN EnterSends
           ELSE UNCHANGED <<messages, tasks, input, input_cursor, is_loading,
                            status_message>>]_vars

C3_Witness ==
    /\ pc = "drain" /\ key.code = "Enter"
    /\ is_loading /\ input = <<>> /\ input_cursor = 0
    /\ status_message = StatusSending
    /\ messages # <<>> /\ LastMessage.is_user
    /\ \E i \in 1..Len(LastMessage.content) : IsWhitespace(LastMessage.content[i])
    /\ [id |-> Len(messages), message |-> LastMessage.content] \in tasks

\* C4: draining a reply event appends one Remote message holding the reply
\* text, clears is_loading, sets the success status and leaves input and
\* input_cursor alone.
C4_ReplyApplied ==
    [][DrainsHead("GeminiResponse")
        => /\ messages' = Append(messages, [content |-> Head(chan).text,
                                             is_user |-> FALSE])
           /\ is_loading' = FALSE
           /\ status_message' = StatusSuccess
           /\ UNCHANGED <<input, input_cursor>>]_vars

C4_Witness ==
    /\ pc = "drain" /\ messages # <<>>
    /\ ~LastMessage.is_user /\ LastMessage.content \in Replies
    /\ ~is_loading /\ status_message = StatusSuccess
    /\ input # <<>>

\* C5: draining an error event appends one Remote message made of the error
\* prefix and the error text, clears is_loading, sets the failure status and
\* leaves the loop running at the drain step.
C5_ErrorAppliedLoopContinues ==
    [][DrainsHead("GeminiError")
        => /\ messages' = Append(messages,
                                 [content |-> ErrorPrefix \o Head(chan).text,
                                  is_user |-> FALSE])
           /\ is_loading' = FALSE
           /\ status_message' = StatusFailure
           /\ pc' = "drain" /\ ~panicked']_vars

\* a further send is accepted after an error has been shown
C5_Witness ==
    /\ pc = "drain" /\ key.code = "Enter" /\ is_loading
    /\ Len(messages) >= 3 /\ LastMessage.is_user
    /\ \E e \in Errors :
          messages[Len(messages) - 1] = [content |-> ErrorPrefix \o e,
                                         is_user |-> FALSE]

\* C6: Escape pressed while is_loading is true clears is_loading, sets the
\* cancelled status, appends no message and leaves the outstanding sends
\* alone; Escape pressed while is_loading is false changes nothing.
C6_EscapeClearsLoadingOnly ==
    [][HandlesKey("Esc")
        => IF is_loading
           THEN /\ is_loading' = FALSE
                /\ status_message' = StatusCancelled
                /\ UNCHANGED <<messages, scroll_offset, input, input_cursor,
                               tasks, chan>>
           ELSE UNCHANGED <<messages, scroll_offset, input, input_cursor,
                            is_loading, status_message, animation_frame,
                            tasks, chan>>]_vars

C6_Witness ==
    /\ pc = "drain" /\ key.code = "Esc"
    /\ ~is_loading /\ status_message = StatusCancelled
    /\ Len(messages) \in cancelled
    /\ \E t \in tasks : t.id = Len(messages)

\* C7: the event of a send that Escape was pressed on is applied like any
\* other when it is drained: one Remote message with its text is appended
\* and is_loading is cleared, in Idle and while a newer send is awaited.
C7_CancelledSendStillDelivers ==
    [][(/\ pc = "drain" /\ chan # <<>> /\ chan' = Tail(chan)
        /\ Head(chan).id \in cancelled)
        => /\ messages' = Append(messages, [content |-> ShownText(Head(chan)),
                                             is_user |-> FALSE])
           /\ is_loading' = FALSE]_vars

\* the result of a cancelled send was applied while a newer send was awaited
C7_Witness ==
    /\ pc = "drain" /\ last_applied \in cancelled
    /\ messages # <<>> /\ ~LastMessage.is_user
    /\ ~is_loading
    /\ \E i \in 1..Len(messages) : messages[i].is_user /\ i > last_applied
    /\ Outstanding >= 1

\* C8: every step leaves messages as it is or appends exactly one element
\* to its end.
C8_MessagesAppendOnly ==
    [][\/ messages' = messages
       \/ /\ Len(messages') = Len(messages) + 1
          /\ SubSeq(messages', 1, Len(messages)) = messages]_vars

C8_Witness ==
    /\ Len(messages) >= 3
    /\ messages[1].is_user /\ ~messages[2].is_user

\* C9: a step that appends a message sets scroll_offset to the index of the
\* new message (length - 1), and in every state scroll_offset is a valid
\* index into messages or messages is empty.
C9_ScrollOffsetAtNewest ==
    /\ [](messages = <<>> \/ scroll_offset \in 0..(Len(messages) - 1))
    /\ [][Len(messages') > Len(messages)
           => scroll_offset' = Len(messages') - 1]_vars

C9_Witness ==
    /\ Len(messages) >= 2 /\ scroll_offset = Len(messages) - 1

\* C10: in every reachable state 0 <= input_cursor <= the number of
\* characters of input.
C10_CursorWithinChars ==
    input_cursor >= 0 /\ input_cursor <= Len(input)

\* C11: no buffer operation fails (the main task never panics), and at the
\* boundaries the operations change nothing: Backspace and Left with the
\* cursor at 0, Right with the cursor at the end of the buffer (its length
\* in characters).
C11_BufferOpsNeverFail ==
    /\ [](~panicked)
    /\ [][/\ (HandlesKey("Backspace") \/ HandlesKey("Left")) /\ input_cursor = 0
             => UNCHANGED <<input, input_cursor>>
          /\ HandlesKey("Right") /\ input_cursor = Len(input)
             => UNCHANGED <<input, input_cursor>>]_vars

\* C12: insert_char(c) at a valid cursor position (0..length in characters)
\* completes, and delete_char() called right after it completes and gives
\* back the buffer and the cursor that insert_char found.
C12_InsertDeleteRoundTrip ==
    /\ (/\ hist # <<>> /\ hist[1].op = "insert"
        /\ hist[1].cursor <= Len(hist[1].input))
       => ~panicked
    /\ (/\ Len(hist) = 2 /\ hist[2].op = "insert" /\ hist[1].op = "delete"
        /\ hist[2].cursor <= Len(hist[2].input))
       => /\ ~panicked
          /\ input = hist[2].input
          /\ input_cursor = hist[2].cursor

\* C13: a character key, Backspace, Left or Right leaves messages,
\* scroll_offset, is_loading, status_message and the outstanding sends
\* (tasks and channel) unchanged, in Idle and in Awaiting.
C13_BufferKeysTouchBufferOnly ==
    [][(\/ HandlesKey("Char") \/ HandlesKey("Backspace")
        \/ HandlesKey("Left") \/ HandlesKey("Right"))
        => UNCHANGED <<messages, scroll_offset, is_loading, status_message,
                       tasks, chan>>]_vars

\* a character typed while a send is awaited
C13_Witness ==
    /\ pc = "drain" /\ key.code = "Char" /\ ~panicked
    /\ is_loading /\ Outstanding >= 1
    /\ input # <<>> /\ status_message = StatusSending

\* C14: animation_frame stays in 0..99, and a tick takes it to the next
\* value, from 99 back to 0.
C14_AnimationFrameWraps ==
    /\ [](animation_frame \in 0..99)
    /\ [][animation_frame' # animation_frame
           => animation_frame' = IF animation_frame = 99 THEN 0
                                 ELSE animation_frame + 1]_vars

C14_Witness ==
    wrapped /\ animation_frame = 0

\* C15: in one iteration the key is handled first, then the channel is
\* drained in arrival order until it is empty, then the tick check runs:
\* the loop position only moves poll -> key -> drain -> tick -> poll, the
\* key step takes nothing from the channel, events leave the channel only
\* at the drain step, head first, each one applied as it is taken, the
\* drain step ends only on an empty channel, and animation_frame changes
\* only at the tick step.
C15_KeyThenDrainThenTick ==
    [][/\ pc' # pc
          => <<pc, pc'>> \in {<<"poll", "key">>, <<"key", "drain">>,
                             <<"key", "exited">>, <<"drain", "tick">>,
                             <<"tick", "poll">>}
       /\ (pc = "key" /\ pc' # pc) => chan' = chan
       /\ Len(chan') < Len(chan)
          => /\ pc = "drain" /\ pc' = "drain"
             /\ chan' = Tail(chan)
             /\ messages' = Append(messages,
                                   [content |-> ShownText(Head(chan)),
                                    is_user |-> FALSE])
       /\ (pc = "drain" /\ pc' = "tick") => chan = <<>>
       /\ animation_frame' # animation_frame => pc = "tick"]_vars

\* Escape was handled against the state before the queued result of the
\* send it cancels, and that result is applied next, in the same iteration
C15_Witness ==
    /\ pc = "drain" /\ key.code = "Esc"
    /\ ~is_loading /\ status_message = StatusCancelled
    /\ chan # <<>> /\ Head(chan).id = Len(messages)
    /\ Head(chan).id \in cancelled
    /\ LastMessage.is_user

----------------------------------------------------------------------------
(* Properties of wrap_text                                                 *)

\* the lines joined with single spaces
RECURSIVE JoinSpaces(_)
JoinSpaces(ls) ==
    IF ls = <<>> THEN <<>>
    ELSE IF Len(ls) = 1 THEN ls[1]
         ELSE ls[1] \o <<" ">> \o JoinSpaces(Tail(ls))

NoLongWord(text, width) ==
    \A i \in 1..Len(split_whitespace(text)) :
        StrWidth(split_whitespace(text)[i]) <= Max(width, min_width)

\* C16: for a non-empty text and a width of at least 10, every returned
\* line is at most width columns wide, or is a single character that is
\* wider than width.
C16_LinesFitWidth ==
    (pc = "return" /\ wt_text # <<>> /\ wt_width >= min_width)
    => \A i \in 1..Len(wt_lines) :
          \/ StrWidth(wt_lines[i]) <= wt_width
          \/ Len(wt_lines[i]) = 1 /\ CharWidth(wt_lines[i][1]) > wt_width

\* two words that fill a line exactly, and a further line
C16_Witness ==
    /\ pc = "return" /\ wt_width >= min_width
    /\ Len(wt_lines) >= 2
    /\ \E i \in 1..Len(wt_lines) :
          /\ StrWidth(wt_lines[i]) = wt_width
          /\ \E j \in 1..Len(wt_lines[i]) : wt_lines[i][j] = " "

\* C17 as stated: for every text and width the lines joined with single
\* spaces are the words of the text joined with single spaces.
C17_JoinGivesWords ==
    pc = "return" => JoinSpaces(wt_lines) = JoinSpaces(split_whitespace(wt_text))

\* C17 amended: when no word of the text is wider than max(width, 10), the
\* lines joined with single spaces are the words of the text joined with
\* single spaces.
C17_JoinGivesWordsNoLongWord ==
    (pc = "return" /\ NoLongWord(wt_text, wt_width))
    => JoinSpaces(wt_lines) = JoinSpaces(split_whitespace(wt_text))

\* three words on two lines, the text holding whitespace that is collapsed
C17_Witness ==
    /\ pc = "return" /\ NoLongWord(wt_text, wt_width)
    /\ Len(split_whitespace(wt_text)) >= 3
    /\ Len(wt_lines) = 2
    /\ JoinSpaces(wt_lines) # wt_text

\* C18: wrap_text returns at least one line; for an empty or whitespace-only
\* text exactly one empty line, for any other text no empty line.
C18_NeverZeroLines ==
    pc = "return"
    => /\ Len(wt_lines) >= 1
       /\ IsBlank(wt_text) => wt_lines = << <<>> >>
       /\ ~IsBlank(wt_text) => \A i \in 1..Len(wt_lines) : wt_lines[i] # <<>>

C18_Witness ==
    /\ pc = "return"
    /\ wt_text # <<>> /\ IsBlank(wt_text)
    /\ wt_lines = << <<>> >>

----------------------------------------------------------------------------
(* Properties of parse_markdown_spans                                      *)

\* the texts of the runs, one after the other
RECURSIVE ConcatSpans(_)
ConcatSpans(sp) ==
    IF sp = <<>> THEN <<>> ELSE Head(sp).content \o ConcatSpans(Tail(sp))

\* the texts of the runs with the doubled marker put back around bold runs
RECURSIVE Unparse(_)
Unparse(sp) ==
    IF sp = <<>> THEN <<>>
    ELSE (IF Head(sp).bold
          THEN <<"*", "*">> \o Head(sp).content \o <<"*", "*">>
          ELSE Head(sp).content) \o Unparse(Tail(sp))

\* position i holds the first doubled marker of the line and no doubled
\* marker follows it
UnclosedAt(text, i) ==
    /\ MarkerAt(text, i)
    /\ \A j \in 1..(i - 1) : ~MarkerAt(text, j)
    /\ \A j \in (i + 2)..Len(text) : ~MarkerAt(text, j)

\* C19 as stated: a line whose opening doubled marker has no closing marker
\* after it gives a single plain run equal to the line.
C19_UnclosedGivesOnePlainRun ==
    (pc = "return" /\ \E i \in 1..Len(md_text) : UnclosedAt(md_text, i))
    => md_spans = <<PlainSpan(md_text)>>

\* C19 amended: such a line gives plain runs only, whose texts concatenated
\* are the line: one run when the line starts with the marker, and when text
\* precedes the marker two runs, that text and then the marker with the rest.
C19_UnclosedGivesPlainRuns ==
    pc = "return"
    => \A i \in 1..Len(md_text) :
          UnclosedAt(md_text, i)
          => /\ \A k \in 1..Len(md_spans) : ~md_spans[k].bold
             /\ ConcatSpans(md_spans) = md_text
             /\ md_spans = (IF i = 1 THEN <<>>
                            ELSE <<PlainSpan(SubSeq(md_text, 1, i - 1))>>)
                           \o <<PlainSpan(SubSeq(md_text, i, Len(md_text)))>>

\* text, an opening marker and more text after it
C19_Witness ==
    /\ pc = "return"
    /\ \E i \in 2..(Len(md_text) - 2) : UnclosedAt(md_text, i)
    /\ Len(md_spans) = 2

\* C20 as stated: the texts of the runs concatenated are the input line.
C20_ConcatIsInput ==
    pc = "return" => ConcatSpans(md_spans) = md_text

\* C20 amended: the texts of the runs concatenated, with the doubled marker
\* put back before and after every bold run, are the input line.
C20_ConcatWithMarkersIsInput ==
    pc = "return" => Unparse(md_spans) = md_text

\* plain, bold, plain
C20_Witness ==
    /\ pc = "return"
    /\ Len(md_spans) = 3
    /\ md_spans[2].bold /\ md_spans[2].content # <<>>
    /\ ConcatSpans(md_spans) # md_text

----------------------------------------------------------------------------
(* parse_markdown_spans on lines without markers and with one bold run     *)

\* no character of s is the marker character
NoStar(s) == \A k \in 1..Len(s) : s[k] # "*"

\* text is P**B**S: the opening marker at i, the closing marker at j, and
\* P, B and S non-empty and free of the marker character
PlainBoldPlainAt(text, i, j) ==
    /\ 1 < i /\ i + 2 < j /\ j + 1 < Len(text)
    /\ text[i] = "*" /\ text[i + 1] = "*"
    /\ text[j] = "*" /\ text[j + 1] = "*"
    /\ NoStar(SubSeq(text, 1, i - 1))
    /\ NoStar(SubSeq(text, i + 2, j - 1))
    /\ NoStar(SubSeq(text, j + 2, Len(text)))

\* C21: a line P**B**S, with P, B and S non-empty and free of the marker
\* character, gives exactly three runs in order: plain P, bold B, plain S.
C21_PlainBoldPlain ==
    pc = "return"
    => \A i, j \in 1..Len(md_text) :
          PlainBoldPlainAt(md_text, i, j)
          => md_spans =
                << [content |-> SubSeq(md_text, 1, i - 1), bold |-> FALSE],
                   [content |-> SubSeq(md_text, i + 2, j - 1), bold |-> TRUE],
                   [content |-> SubSeq(md_text, j + 2, Len(md_text)),
                    bold |-> FALSE] >>

\* a line P**B**S has been parsed into three runs
C21_Witness ==
    /\ pc = "return"
    /\ \E i, j \in 1..Len(md_text) : PlainBoldPlainAt(md_text, i, j)
    /\ Len(md_spans) = 3
    /\ md_spans[2].bold

\* the line holds no doubled marker
NoMarker(text) ==
    \A i \in 1..(Len(text) - 1) : ~(text[i] = "*" /\ text[i + 1] = "*")

\* C22 as stated: a line without a doubled marker gives exactly one run,
\* plain, whose text is the whole line.
C22_NoMarkerGivesOneRun ==
    (pc = "return" /\ NoMarker(md_text))
    => md_spans = << [content |-> md_text, bold |-> FALSE] >>

\* C22 amended: a non-empty line without a doubled marker gives exactly one
\* run, plain, whose text is the whole line; the empty line gives no run.
C22_NoMarkerGivesOneRunOrNone ==
    (pc = "return" /\ NoMarker(md_text))
    => md_spans = (IF md_text = <<>> THEN <<>>
                   ELSE << [content |-> md_text, bold |-> FALSE] >>)

\* a line with single marker characters and no doubled marker was parsed
C22_Witness ==
    /\ pc = "return"
    /\ NoMarker(md_text)
    /\ \E k \in 1..Len(md_text) : md_text[k] = "*"
    /\ Len(md_text) > 1
    /\ Len(md_spans) = 1

----------------------------------------------------------------------------
(* Properties of App::run's terminal handling                              *)

\* App::run has returned, with Ok or with an error
Returned ==
    pc \in {"returned", "failed_setup", "failed_draw", "failed_poll",
            "failed_read", "failed_restore"}

\* C23: whenever App::run has returned, through Ctrl+C or through a terminal
\* I/O error in setup, draw, poll or read, the terminal is restored: raw mode
\* is disabled and the alternate screen is left.
C23_TerminalRestoredOnExit ==
    Returned => (~terminal.raw_mode /\ ~terminal.alternate_screen)

----------------------------------------------------------------------------
(* Properties of the rendered bubble                                       *)

\* the lines of the bubble: all of the item but the empty line closing it
BubbleRows == 1..(Len(item_lines) - 1)

\* C24: the rendered bubble is a rectangle: its top border, each body line
\* and its bottom border have the same display width, the alignment padding
\* left aside, for User and Remote messages alike.
C24_BubbleIsRectangle ==
    pc = "return"
    => \A j, k \in BubbleRows :
          StrWidth(item_lines[j].text) = StrWidth(item_lines[k].text)

\* C25: every line of a User bubble is left-padded by the area width less the
\* bubble's width, so that the padded line is exactly as wide as the area
\* and never wider; the lines of a Remote bubble get no padding.
C25_UserBubbleRightAligned ==
    pc = "return"
    => \A k \in BubbleRows :
          IF message.is_user
          THEN Len(item_lines[k].padding) + StrWidth(item_lines[k].text)
                  = area_width
          ELSE item_lines[k].padding = <<>>

----------------------------------------------------------------------------
(* Properties of the sends and their results                               *)

\* the messages of the log that are (is_user = TRUE) or are not User messages
RECURSIVE CountMessages(_, _)
CountMessages(ms, is_user) ==
    IF ms = <<>> THEN 0
    ELSE (IF Head(ms).is_user = is_user THEN 1 ELSE 0)
         + CountMessages(Tail(ms), is_user)

\* C26: every send is accounted for exactly once: the User messages are as
\* many as the Remote messages plus the outstanding sends (tasks that have
\* not delivered, events not drained), so Remote messages never outnumber
\* User messages.
C26_SendsAccountedFor ==
    /\ CountMessages(messages, TRUE)
          = CountMessages(messages, FALSE) + Outstanding
    /\ CountMessages(messages, FALSE) <= CountMessages(messages, TRUE)

\* one send has been answered and another has delivered its event, which
\* the loop has not drained yet
C26_Witness ==
    /\ CountMessages(messages, FALSE) = 1
    /\ CountMessages(messages, TRUE) = 2
    /\ tasks = {}
    /\ Len(chan) = 1

\* the loop has applied a reply or an error, and the flag is clear
LoadingEndedByDrain ==
    ~is_loading /\ status_message \in {StatusSuccess, StatusFailure}

\* C27: the loading flag cannot stay set forever: while it is set at least one
\* send is outstanding, and when every spawned task delivers and the loop
\* keeps iterating, every state with the flag set is followed by a state in
\* which the loop has drained a reply or an error and the flag is clear,
\* whether or not Escape is pressed.
C27_LoadingEnds ==
    /\ [](is_loading => Outstanding >= 1)
    /\ (is_loading /\ Running) ~> (LoadingEndedByDrain \/ ~Running)

\* the flag was set by a send and cleared by the drain of its reply, Escape
\* never having been pressed on a send
C27_Witness ==
    /\ LoadingEndedByDrain
    /\ Len(messages) = 2
    /\ cancelled = {}
    /\ Outstanding = 0
    /\ Running

\* C28: as long as Escape has not been pressed on a send, the log alternates
\* User, Remote, User, Remote, ... from a User message on, and the Remote
\* message last added is the result of the send started by the User message
\* right before it.
C28_LogAlternates ==
    cancelled = {}
    => /\ \A k \in 1..Len(messages) : messages[k].is_user = (k % 2 = 1)
       /\ (messages # <<>> /\ ~LastMessage.is_user)
             => last_applied = Len(messages) - 1

\* two sends, each answered before the next, and no Escape
C28_Witness ==
    /\ cancelled = {}
    /\ Len(messages) = 4
    /\ last_applied = 3

====
